---- MODULE Spec2Model ----
(***************************************************************************)
(* Model of lib/imageEdit.py: the corner rounder, the drop shadow          *)
(* compositor and the black and white converter.                           *)
(*                                                                         *)
(* An image object is a record [mode, size, px]; px maps <<x, y>> to the   *)
(* pixel's channel tuple.  Image objects live in `heap`, and the program   *)
(* holds references (indices of heap) to them, so that "a new image" and   *)
(* "the same image" are different things.  The result of a resampling      *)
(* (BLUR, ANTIALIAS resize) is an image object of known mode and size whose *)
(* pixel contents are not tracked: it has no px field.                     *)
(***************************************************************************)
EXTENDS Integers, Sequences, FiniteSets, TLC

(* ------------------------------ bounds -------------------------------- *)
\* largest width and height of an input image of the geometry operations
MaxDim == 2
\* side of the square image of the corner rounding scenario
ScenarioDim == 100
\* radius arguments of roundCorners are drawn from -1 .. MaxRadius
MaxRadius == 2
\* percentages of roundCornersPercent are PctStep * (-1 .. MaxPctK)
PctStep == 25
MaxPctK == 4
\* shadow offsets are drawn from -MaxOff .. MaxOff, borders from 0 .. MaxBorder,
\* iterations from 0 .. MaxIter
MaxOff == 1
MaxBorder == 1
MaxIter == 1
\* largest number of pixels of an input image of convertBlackAndWhite
MaxPixels == 4

(* ------------------------- program constants -------------------------- *)
\* size*radius/100
Hundred == 100
\* cmpTup's band: tupleB[index] + 10, tupleB[index] - 10
Tolerance == 10
\* the channel value of "#ffffffff", (255, 255, 255, 255) and of the threshold lambdas
Full == 255

VARIABLES
    heap,     \* the image objects, by reference (1 .. Len(heap))
    image,    \* the reference passed as the `image` argument
    pc,       \* "idle" before the call, "done" after a return, "error" after a raise
    op,       \* the function called
    args,     \* its other arguments
    locals,   \* its local variables when it returned
    result    \* the reference it returned; 0 when it returned nothing

vars == <<heap, image, pc, op, args, locals, result>>

(* ------------------------------ colours ------------------------------- *)
Transparent == <<0, 0, 0, 0>>         \* "#00000000"
White == <<Full, Full, Full, Full>>   \* "#ffffffff", (255, 255, 255, 255)
Black == <<0, 0, 0, Full>>            \* (0, 0, 0, 255)

Min2(a, b) == IF a <= b THEN a ELSE b
Max2(a, b) == IF a >= b THEN a ELSE b
Abs(a) == IF a >= 0 THEN a ELSE -a

(* ------------------------- the raster library -------------------------- *)
Coords(size) == (0 .. size[1] - 1) \X (0 .. size[2] - 1)

\* Image.new(mode, size, colour)
ImageNew(mode, size, colour) ==
    [mode |-> mode, size |-> size, px |-> [p \in Coords(size) |-> colour]]

\* ImageDraw.Draw(im).ellipse((x0, y0, x1, y1), fill): the bounding box runs
\* from x0 to x1 inclusive, so the centre is ((x0+x1)/2, (y0+y1)/2) and a
\* pixel is filled when it lies within the semi-axes; pixels of the box that
\* fall outside the canvas are clipped.
InEllipse(p, box) ==
    LET dx == 2 * p[1] - (box[1] + box[3])
        dy == 2 * p[2] - (box[2] + box[4])
        a == box[3] - box[1]
        b == box[4] - box[2]
    IN  IF a = b
        THEN dx * dx + dy * dy <= a * a
        ELSE dx * dx * b * b + dy * dy * a * a <= a * a * b * b

Ellipse(im, box, fill) ==
    [im EXCEPT !.px = [p \in Coords(im.size) |->
                         IF InEllipse(p, box) THEN fill ELSE im.px[p]]]

\* im.crop((left, upper, right, lower)): pixels outside im read as zero
Crop(im, box) ==
    LET size == <<box[3] - box[1], box[4] - box[2]>>
    IN  [mode |-> im.mode, size |-> size,
         px |-> [p \in Coords(size) |->
                   LET q == <<p[1] + box[1], p[2] + box[2]>>
                   IN  IF q \in Coords(im.size) THEN im.px[q] ELSE Transparent]]

\* im.convert("RGBA")
ConvertRGBA(im) ==
    IF im.mode = "RGBA" THEN im
    ELSE IF im.mode = "RGB"
    THEN [mode |-> "RGBA", size |-> im.size,
          px |-> [p \in Coords(im.size) |->
                    <<im.px[p][1], im.px[p][2], im.px[p][3], Full>>]]
    ELSE \* "L" and "1": the grey level in every colour channel
         [mode |-> "RGBA", size |-> im.size,
          px |-> [p \in Coords(im.size) |-> <<im.px[p], im.px[p], im.px[p], Full>>]]

\* the library's rounding division by 255 when blending through a mask
Div255(a) == (((a + 128) \div 256) + a + 128) \div 256

Blend(m, under, over) ==
    [c \in 1 .. 4 |-> Div255(under[c] * (Full - m) + over[c] * m)]

\* dst.paste(src, (left, top)): the region of src that falls on dst replaces it
Paste(dst, src, at) ==
    [dst EXCEPT !.px = [p \in Coords(dst.size) |->
        LET q == <<p[1] - at[1], p[2] - at[2]>>
        IN  IF q \in Coords(src.size) THEN src.px[q] ELSE dst.px[p]]]

\* dst.paste(src, (left, top), mask): src is converted to dst's mode and each
\* channel is blended through the mask's alpha band
PasteMask(dst, src, at, mask) ==
    LET s == ConvertRGBA(src)
    IN  [dst EXCEPT !.px = [p \in Coords(dst.size) |->
            LET q == <<p[1] - at[1], p[2] - at[2]>>
            IN  IF q \in Coords(s.size)
                THEN Blend(mask.px[q][4], dst.px[p], s.px[q])
                ELSE dst.px[p]]]

\* image.resize((width, height), Image.ANTIALIAS): a new image of the asked size
Resize(im, size) == [mode |-> im.mode, size |-> size]

\* background.filter(ImageFilter.BLUR): a new image of the same mode and size
Blur(im) == [mode |-> im.mode, size |-> im.size]

(* ---------------------------- roundCorners ---------------------------- *)
\* the four quadrants cropped from the circle canvas, in the order of the code
CornerCrops(radius) ==
    << <<0, 0, radius, radius>>,
       <<0, radius, radius, radius * 2>>,
       <<radius, 0, radius * 2, radius>>,
       <<radius, radius, radius * 2, radius * 2>> >>

\* where each quadrant is pasted on the mask
CornerPastes(w, h, radius) ==
    << <<0, 0>>, <<0, h - radius>>, <<w - radius, 0>>, <<w - radius, h - radius>> >>

\* a mask that starts from "#00000000" instead of "#ffffffff"
roundCornersAlphaClear(size, radius) == ImageNew("RGBA", size, Transparent)

\* circle, draw.ellipse and the four alpha.paste(circle.crop(...), ...)
roundCornersAlpha(size, radius) ==
    LET circle == Ellipse(ImageNew("RGBA", <<radius * 2, radius * 2>>, Transparent),
                          <<0, 0, radius * 2, radius * 2>>, White)
        crops == CornerCrops(radius)
        at == CornerPastes(size[1], size[2], radius)
        a0 == ImageNew("RGBA", size, White)
        a1 == Paste(a0, Crop(circle, crops[1]), at[1])
        a2 == Paste(a1, Crop(circle, crops[2]), at[2])
        a3 == Paste(a2, Crop(circle, crops[3]), at[3])
    IN  Paste(a3, Crop(circle, crops[4]), at[4])

\* roundCorners(image, radius) on the image object im: whether it raised, the
\* image object it built and returns, and its locals.  Image.new raises
\* ValueError for a negative size.
roundCorners(im, radius) ==
    IF radius < 0
    THEN [raised |-> TRUE, locals |-> [radius |-> radius]]
    ELSE LET alpha == roundCornersAlpha(im.size, radius)
             background == ImageNew("RGBA", im.size, Transparent)
         IN  [raised |-> FALSE,
              value |-> PasteMask(background, im, <<0, 0>>, ConvertRGBA(alpha)),
              locals |-> [radius |-> radius,
                          circle |-> <<radius * 2, radius * 2>>,
                          crops |-> CornerCrops(radius),
                          alpha |-> alpha,
                          pastes |-> CornerPastes(im.size[1], im.size[2], radius),
                          w |-> im.size[1], h |-> im.size[2]]]

\* round(x) in the place of int(x)
IntRound(num, den) == (2 * num + den) \div (2 * den)

\* int(x) of the quotient num/den, den > 0: truncation towards zero
IntTrunc(num, den) == IF num >= 0 THEN num \div den ELSE -((-num) \div den)

\* roundCornersPercent(image, radius)
roundCornersPercent(im, radius) ==
    LET w == im.size[1]
        h == im.size[2]
        size == Min2(w, h)
        rad == IntTrunc(size * radius, Hundred)
        call == roundCorners(im, rad)
    IN  [call EXCEPT !.locals = [w |-> w, h |-> h, size |-> size, rad |-> rad,
                                 roundCorners |-> call.locals]]

(* ------------------------ addDropShadowComplex ------------------------ *)
\* the canvas without abs() around the offset
FullSizeSigned(size, offset, border) ==
    <<size[1] + offset[1] + 2 * border, size[2] + offset[2] + 2 * border>>

\* fullWidth, fullHeight
FullSize(size, offset, border) ==
    <<size[1] + Abs(offset[1]) + 2 * border, size[2] + Abs(offset[2]) + 2 * border>>

\* shadowLeft, shadowTop
ShadowAt(border, offset) == <<border + Max2(offset[1], 0), border + Max2(offset[2], 0)>>

\* border + min(...) in the place of border - min(...)
ImgAtPlus(border, offset) == <<border + Min2(offset[1], 0), border + Min2(offset[2], 0)>>

\* imgLeft, imgTop
ImgAt(border, offset) == <<border - Min2(offset[1], 0), border - Min2(offset[2], 0)>>

\* the canvas returned as it is
resizeImageAbsNone(im, width, height) == im

\* resizeImageAbs(image, width, height)
resizeImageAbs(im, width, height) == Resize(im, <<width, height>>)

RECURSIVE BlurTimes(_, _)
\* for _ in range(iterations): background = background.filter(ImageFilter.BLUR)
BlurTimes(im, iterations) ==
    IF iterations <= 0 THEN im ELSE BlurTimes(Blur(im), iterations - 1)

\* addDropShadowComplex(image, iterations, border, offset, ...) on the image
\* object im.  The canvas is followed by its size and by the rectangles pasted
\* on it; the colours pasted and blurred are not.
addDropShadowComplex(im, iterations, border, offset) ==
    LET originalSize == im.size
        full == FullSize(im.size, offset, border)
        background == [mode |-> "RGBA", size |-> full]
        shadow == [mode |-> "RGBA", size |-> originalSize]
        blurred == BlurTimes(background, iterations)
    IN  [raised |-> FALSE,
         value |-> resizeImageAbs(blurred, originalSize[1], originalSize[2]),
         locals |-> [originalSize |-> originalSize,
                     fullWidth |-> full[1], fullHeight |-> full[2],
                     background |-> blurred.size,
                     shadow |-> shadow.size,
                     shadowAt |-> ShadowAt(border, offset),
                     imgAt |-> ImgAt(border, offset),
                     imgSize |-> ConvertRGBA(im).size,
                     blurs |-> Max2(iterations, 0)]]

(* ------------------------------ the calls ------------------------------ *)
\* what a call (made when pc = "idle") leaves behind: a returned object is a new entry of the heap,
\* and no function of the library writes to the object it was passed
Return(name, a, call) ==
    /\ op' = name
    /\ args' = a
    /\ locals' = call.locals
    /\ IF call.raised
       THEN /\ pc' = "error"
            /\ heap' = heap
            /\ result' = 0
       ELSE /\ pc' = "done"
            /\ heap' = Append(heap, call.value)
            /\ result' = Len(heap) + 1
    /\ UNCHANGED image

Radii == -1 .. MaxRadius
Percents == {PctStep * k : k \in -1 .. MaxPctK}
Offsets == (-MaxOff .. MaxOff) \X (-MaxOff .. MaxOff)
Borders == 0 .. MaxBorder
Iterations == 0 .. MaxIter

CallRoundCorners ==
    /\ pc = "idle"
    /\ \E radius \in Radii :
        Return("roundCorners", [radius |-> radius], roundCorners(heap[image], radius))

CallRoundCornersPercent ==
    /\ pc = "idle"
    /\ \E radius \in Percents :
        Return("roundCornersPercent", [radius |-> radius],
               roundCornersPercent(heap[image], radius))

CallAddDropShadowComplex ==
    /\ pc = "idle"
    /\ \E iterations \in Iterations, border \in Borders, offset \in Offsets :
        Return("addDropShadowComplex",
               [iterations |-> iterations, border |-> border, offset |-> offset],
               addDropShadowComplex(heap[image], iterations, border, offset))

(* ------------------------------- inputs -------------------------------- *)
Red == <<Full, 0, 0, Full>>
Glass == <<0, 0, Full, 128>>

Sizes == (1 .. MaxDim) \X (1 .. MaxDim)

\* every RGBA image of a size in Sizes over two colours, every RGB image over
\* their colour channels, and the scenario's opaque red square
GeometryImages ==
    UNION {[mode : {"RGBA"}, size : {s}, px : [Coords(s) -> {Red, Glass}]] : s \in Sizes}
    \cup UNION {[mode : {"RGB"}, size : {s},
                 px : [Coords(s) -> {<<Full, 0, 0>>, <<0, 0, Full>>}]] : s \in Sizes}
    \cup {ImageNew("RGBA", <<ScenarioDim, ScenarioDim>>, Red)}

Init ==
    /\ heap \in {<<im>> : im \in GeometryImages}
    /\ image = 1
    /\ pc = "idle"
    /\ op = "none"
    /\ args = <<>>
    /\ locals = <<>>
    /\ result = 0

Next ==
    \/ CallRoundCorners
    \/ CallRoundCornersPercent
    \/ CallAddDropShadowComplex

Spec == Init /\ [][Next]_vars

(* ------------------------ convertBlackAndWhite ------------------------ *)
\* the grey level image.convert('L') gives a colour (the alpha band is dropped)
Luma(c) == (c[1] * 19595 + c[2] * 38470 + c[3] * 7471 + 32768) \div 65536

\* image.convert('L')
ConvertL(im) ==
    [mode |-> "L", size |-> im.size, px |-> [p \in Coords(im.size) |-> Luma(im.px[p])]]

\* rgbaImage.getcolors(): a (count, colour) pair for each colour of the image,
\* in an order the library does not specify
ColoursOf(im) == {im.px[p] : p \in Coords(im.size)}
CountOf(im, c) == Cardinality({p \in Coords(im.size) : im.px[p] = c})
RECURSIVE Orders(_)
Orders(S) ==
    IF S = {} THEN {<<>>}
    ELSE UNION {{<<x>> \o o : o \in Orders(S \ {x})} : x \in S}
GetColors(im) ==
    LET counted == {<<CountOf(im, c), c>> : c \in ColoursOf(im)}
    IN  Orders(counted)

\* getKey(item)
getKey(item) == item[1]

RECURSIVE InsertDescending(_, _)
InsertDescending(s, x) ==
    IF s = <<>> THEN <<x>>
    ELSE IF getKey(Head(s)) >= getKey(x)
         THEN <<Head(s)>> \o InsertDescending(Tail(s), x)
         ELSE <<x>> \o s

RECURSIVE SortedFrom(_, _)
SortedFrom(done, rest) ==
    IF rest = <<>> THEN done
    ELSE SortedFrom(InsertDescending(done, Head(rest)), Tail(rest))

\* sorted(colors, key=getKey, reverse=True): stable, so equal counts keep
\* the order of colors
SortedDescending(colors) == SortedFrom(<<>>, colors)

\* >= and <= in the place of > and <: a band one step narrower
cmpTupStrict(tupleA, tupleB) ==
    \A index \in 1 .. Len(tupleA) :
        ~(tupleA[index] >= tupleB[index] + Tolerance
            \/ tupleA[index] <= tupleB[index] - Tolerance)

\* cmpTup(tupleA, tupleB)
cmpTup(tupleA, tupleB) ==
    \A index \in 1 .. Len(tupleA) :
        ~(tupleA[index] > tupleB[index] + Tolerance
            \/ tupleA[index] < tupleB[index] - Tolerance)

\* [0] in both modes
FilterIndexFirst(mode) == 1

\* the index into the sorted colours: [0] for background, [1] for foreground
\* (sequences here start at 1)
FilterIndex(mode) == IF mode = "background" THEN 1 ELSE 2

\* im.thumbnail((1, 1)); im.getpixel((0, 0)): the one pixel left by the
\* downsampling is the mean grey level, rounded either way
GreySum(im) ==
    LET RECURSIVE Sum(_)
        Sum(S) == IF S = {} THEN 0
                  ELSE LET p == CHOOSE q \in S : TRUE IN im.px[p] + Sum(S \ {p})
    IN  Sum(Coords(im.size))
AverageColours(im) ==
    LET n == Cardinality(Coords(im.size))
        total == GreySum(ConvertL(im))
    IN  {total \div n, (total + n - 1) \div n}

\* a lambda that lets the lighter grey levels through unchanged
thresholdKeep(mode, averageColour, pixel) ==
    IF mode = "filter-darker"
    THEN (IF pixel < averageColour THEN 0 ELSE pixel)
    ELSE (IF pixel > averageColour THEN 0 ELSE pixel)

\* filter-darker with <= in the place of <
thresholdInclusive(mode, averageColour, pixel) ==
    IF mode = "filter-darker"
    THEN (IF pixel <= averageColour THEN 0 ELSE Full)
    ELSE (IF pixel > averageColour THEN 0 ELSE Full)

\* the threshold lambdas of filter-darker and filter-lighter
threshold(mode, averageColour, pixel) ==
    IF mode = "filter-darker"
    THEN (IF pixel < averageColour THEN 0 ELSE Full)
    ELSE (IF pixel > averageColour THEN 0 ELSE Full)

\* image.convert('L').point(threshold, mode='1')
PointThreshold(im, mode, averageColour) ==
    [mode |-> "1", size |-> im.size,
     px |-> [p \in Coords(im.size) |-> threshold(mode, averageColour, ConvertL(im).px[p])]]

\* the loops over pixels[i, j] of background and foreground
FilterPixels(im, mode, filterColour) ==
    LET converted == ConvertRGBA(im)
    IN  [converted EXCEPT !.px = [p \in Coords(im.size) |->
            IF mode = "background"
            THEN (IF cmpTup(converted.px[p], filterColour) THEN White ELSE Black)
            ELSE (IF ~cmpTup(converted.px[p], filterColour) THEN White ELSE Black)]]

\* convertBlackAndWhite(image, mode) on the image object im, for the order
\* colors that getcolors gave and the grey level averageColour that the
\* thumbnail gave
convertBlackAndWhite(im, mode, colors, averageColour) ==
    IF mode \in {"background", "foreground"}
    THEN LET sorted == SortedDescending(colors)
         IN  IF FilterIndex(mode) > Len(sorted)
             THEN \* IndexError: list index out of range
                  [raised |-> TRUE, locals |-> [colors |-> colors]]
             ELSE LET filterColour == sorted[FilterIndex(mode)][2]
                  IN  [raised |-> FALSE,
                       value |-> ConvertRGBA(FilterPixels(im, mode, filterColour)),
                       locals |-> [colors |-> colors, filterColour |-> filterColour,
                                   averageColour |-> averageColour]]
    ELSE [raised |-> FALSE,
          value |-> ConvertRGBA(PointThreshold(im, mode, averageColour)),
          locals |-> [averageColour |-> averageColour]]

Modes == {"filter-darker", "filter-lighter", "background", "foreground"}

\* getcolors is called in the background and foreground modes only
CallConvertBlackAndWhite ==
    /\ pc = "idle"
    /\ \E mode \in Modes :
        \E colors \in (IF mode \in {"background", "foreground"}
                       THEN GetColors(ConvertRGBA(heap[image])) ELSE {<<>>}),
           averageColour \in AverageColours(heap[image]) :
            Return("convertBlackAndWhite", [mode |-> mode],
                   convertBlackAndWhite(heap[image], mode, colors, averageColour))

\* colours a tolerance apart from white, one step more, and black
NearWhite == <<Full - Tolerance, Full, Full, Full>>
OffWhite == <<Full - Tolerance - 1, Full, Full, Full>>
BWColours == {White, Black, NearWhite, OffWhite}
RGBOf(c) == <<c[1], c[2], c[3]>>

BWSizes == {s \in (1 .. MaxPixels) \X (1 .. MaxPixels) : s[1] * s[2] <= MaxPixels}

\* every RGBA and every RGB image of at most MaxPixels pixels over BWColours
BWImages ==
    UNION {[mode : {"RGBA"}, size : {s}, px : [Coords(s) -> BWColours]] : s \in BWSizes}
    \cup UNION {[mode : {"RGB"}, size : {s},
                 px : [Coords(s) -> {RGBOf(c) : c \in BWColours}]] : s \in BWSizes}

InitBW ==
    /\ heap \in {<<im>> : im \in BWImages}
    /\ image = 1
    /\ pc = "idle"
    /\ op = "none"
    /\ args = <<>>
    /\ locals = <<>>
    /\ result = 0

NextBW == CallConvertBlackAndWhite

SpecBW == InitBW /\ [][NextBW]_vars

(* ------------------------------- claims -------------------------------- *)
Returned(name) == pc = "done" /\ op = name
Called(name) == pc \in {"done", "error"} /\ op = name

\* a w-by-h rectangle at `at` lies on a canvas of the given size
RectInside(at, size, canvas) ==
    /\ 0 <= at[1] /\ at[1] + size[1] <= canvas[1]
    /\ 0 <= at[2] /\ at[2] + size[2] <= canvas[2]
BoxSize(box) == <<box[3] - box[1], box[4] - box[2]>>

\* C1: for iterations >= 0, border >= 0 and an offset of either sign,
\* addDropShadowComplex returns an image of exactly the input's width and
\* height, while the canvas it resizes is (w + |dx| + 2*border) by
\* (h + |dy| + 2*border).
C1_ShadowKeepsSize ==
    (Called("addDropShadowComplex") /\ args.iterations >= 0 /\ args.border >= 0) =>
        LET size == heap[image].size
        IN  /\ pc = "done"
            /\ heap[result].size = size
            /\ locals.background =
                 <<size[1] + Abs(args.offset[1]) + 2 * args.border,
                   size[2] + Abs(args.offset[2]) + 2 * args.border>>

C1_Witness ==
    /\ Returned("addDropShadowComplex")
    /\ args.offset = <<-1, 1>> /\ args.border = 1 /\ args.iterations = 1
    /\ heap[image].size = <<1, 2>>
    /\ locals.background = <<4, 5>>
    /\ heap[result].size = <<1, 2>>

\* C2: roundCorners(image, 0) builds a mask that is opaque white at every
\* pixel, and returns an image of the input's size whose every pixel is the
\* input's pixel (an RGB pixel read as the opaque RGBA pixel of its colour).
C2_RadiusZeroIdentity ==
    (Called("roundCorners") /\ args.radius = 0) =>
        /\ pc = "done"
        /\ locals.alpha.size = heap[image].size
        /\ \A p \in Coords(heap[image].size) : locals.alpha.px[p] = White
        /\ heap[result].size = heap[image].size
        /\ \A p \in Coords(heap[image].size) :
             LET c == heap[image].px[p]
             IN  heap[result].px[p] =
                   IF heap[image].mode = "RGB" THEN <<c[1], c[2], c[3], Full>> ELSE c

C2_Witness ==
    /\ Returned("roundCorners") /\ args.radius = 0
    /\ heap[image].mode = "RGBA" /\ heap[image].size = <<2, 2>>
    /\ heap[image].px[<<0, 0>>] = Glass /\ heap[image].px[<<1, 1>>] = Red
    /\ heap[result].px = heap[image].px

\* C3: for a percentage p >= 0, roundCornersPercent(image, p) calls roundCorners
\* with floor(min(w, h) * p / 100) and returns what that call returns; the
\* result has the input's size.
C3_PercentDelegates ==
    (Called("roundCornersPercent") /\ args.radius >= 0) =>
        LET size == heap[image].size
            floor == (Min2(size[1], size[2]) * args.radius) \div Hundred
        IN  /\ locals.rad = floor
            /\ locals.roundCorners.radius = floor
            /\ pc = "done"
            /\ heap[result] = roundCorners(heap[image], floor).value
            /\ heap[result].size = size

\* the scenario: a 100 by 100 opaque red image, 50 percent
C3_Witness ==
    /\ Returned("roundCornersPercent") /\ args.radius = 50
    /\ heap[image] = ImageNew("RGBA", <<100, 100>>, Red)
    /\ locals.rad = 50
    /\ heap[result].size = <<100, 100>> /\ heap[result].mode = "RGBA"
    /\ heap[result].px[<<0, 0>>] = Transparent
    /\ heap[result].px[<<50, 50>>] = Red

\* C6: roundCorners works in place: it returns the reference it was passed,
\* and the object passed holds the rounded pixels after the call.
C6_InPlace ==
    Returned("roundCorners") =>
        /\ result = image
        /\ heap[image].px = heap[Len(heap)].px

\* C9: under valid parameters no crop or paste region leaves its canvas: in
\* roundCorners with 0 <= radius <= floor(min(w, h) / 2) the four quadrant
\* crops lie on the circle canvas and the four pasted quadrants on the mask;
\* in addDropShadowComplex with border >= 0 the silhouette and the image both
\* lie on the full canvas.
C9_RegionsInside ==
    /\ (Returned("roundCorners")
          /\ 0 <= args.radius
          /\ args.radius <= Min2(heap[image].size[1], heap[image].size[2]) \div 2) =>
            \A i \in 1 .. 4 :
                /\ RectInside(<<locals.crops[i][1], locals.crops[i][2]>>,
                              BoxSize(locals.crops[i]), locals.circle)
                /\ BoxSize(locals.crops[i]) = <<args.radius, args.radius>>
                /\ RectInside(locals.pastes[i], BoxSize(locals.crops[i]),
                              locals.alpha.size)
    /\ (Returned("addDropShadowComplex") /\ args.border >= 0) =>
            /\ locals.shadow = heap[image].size
            /\ locals.imgSize = heap[image].size
            /\ locals.background = <<locals.fullWidth, locals.fullHeight>>
            /\ RectInside(locals.shadowAt, locals.shadow, locals.background)
            /\ RectInside(locals.imgAt, locals.imgSize, locals.background)

C9_Witness ==
    /\ Returned("roundCorners") /\ args.radius = 1
    /\ heap[image].size = <<2, 2>>
    /\ locals.circle = <<2, 2>>
    /\ locals.pastes[4] = <<1, 1>>

\* C10: for every offset (dx, dy) and border >= 0 the silhouette is pasted at
\* (border + max(dx, 0), border + max(dy, 0)) and the image at
\* (border - min(dx, 0), border - min(dy, 0)), so the silhouette's corner minus
\* the image's corner is (dx, dy).
C10_ShadowOffset ==
    (Returned("addDropShadowComplex") /\ args.border >= 0) =>
        LET dx == args.offset[1]
            dy == args.offset[2]
            b == args.border
        IN  /\ locals.shadowAt = <<b + (IF dx > 0 THEN dx ELSE 0), b + (IF dy > 0 THEN dy ELSE 0)>>
            /\ locals.imgAt = <<b - (IF dx < 0 THEN dx ELSE 0), b - (IF dy < 0 THEN dy ELSE 0)>>
            /\ locals.shadowAt[1] - locals.imgAt[1] = dx
            /\ locals.shadowAt[2] - locals.imgAt[2] = dy

C10_Witness ==
    /\ Returned("addDropShadowComplex")
    /\ args.offset = <<-1, 1>> /\ args.border = 1
    /\ locals.shadowAt = <<1, 2>>
    /\ locals.imgAt = <<2, 1>>

\* the input of convertBlackAndWhite as the function reads it
Source == ConvertRGBA(heap[image])
\* each channel of a within Tolerance of the channel of b
Near(a, b) == \A i \in 1 .. 4 : Abs(a[i] - b[i]) <= Tolerance
FilterModes == {"filter-darker", "filter-lighter"}
RankModes == {"background", "foreground"}

\* C4: in mode filter-darker or filter-lighter convertBlackAndWhite returns an
\* image of the input's dimensions in which every pixel is (0, 0, 0, 255) or
\* (255, 255, 255, 255).
C4_FilterBlackOrWhite ==
    (Called("convertBlackAndWhite") /\ args.mode \in FilterModes) =>
        /\ pc = "done"
        /\ heap[result].mode = "RGBA"
        /\ heap[result].size = heap[image].size
        /\ \A p \in Coords(heap[image].size) :
             heap[result].px[p] \in {<<0, 0, 0, 255>>, <<255, 255, 255, 255>>}

C4_Witness ==
    /\ Returned("convertBlackAndWhite") /\ args.mode = "filter-darker"
    /\ heap[image].size = <<2, 2>>
    /\ \E p, q \in Coords(heap[image].size) :
         heap[result].px[p] = Black /\ heap[result].px[q] = White

C7_BothModesFail ==
    (Called("convertBlackAndWhite") /\ args.mode \in RankModes
        /\ Cardinality(ColoursOf(Source)) < 2) =>
        /\ pc = "error"
        /\ result = 0
        /\ Len(heap) = 1

\* C7 as amended: with fewer than 2 distinct colours (and at least one pixel),
\* foreground mode fails on the index of the 2nd-ranked colour and returns no
\* image; background mode indexes the top-ranked colour only, does not fail,
\* and returns an image whose every pixel is white.
C7_ForegroundFails ==
    (Called("convertBlackAndWhite") /\ args.mode \in RankModes
        /\ Cardinality(ColoursOf(Source)) < 2) =>
        IF args.mode = "foreground"
        THEN /\ pc = "error"
             /\ result = 0
             /\ Len(heap) = 1
        ELSE /\ pc = "done"
             /\ heap[result].size = heap[image].size
             /\ \A p \in Coords(heap[image].size) : heap[result].px[p] = White

C7_Witness ==
    /\ pc = "error" /\ op = "convertBlackAndWhite" /\ args.mode = "foreground"
    /\ heap[image].size = <<2, 2>>
    /\ ColoursOf(Source) = {Black}
    /\ result = 0

\* the image filter-lighter returns for the input and the average of this call
Lighter ==
    convertBlackAndWhite(heap[image], "filter-lighter", <<>>, locals.averageColour).value

\* C8 as stated: the filter-lighter result is the inversion of the
\* filter-darker result at every pixel, the pixels whose grey level equals the
\* average included.
C8_Inversion ==
    (Returned("convertBlackAndWhite") /\ args.mode = "filter-darker") =>
        \A p \in Coords(heap[image].size) :
            /\ heap[result].px[p] = Black => Lighter.px[p] = White
            /\ heap[result].px[p] = White => Lighter.px[p] = Black

\* C8 as amended: at every pixel whose grey level differs from the average the
\* filter-lighter result is the inversion of the filter-darker result; a pixel
\* whose grey level equals the average is white in both.
C8_InversionOffAverage ==
    (Returned("convertBlackAndWhite") /\ args.mode = "filter-darker") =>
        \A p \in Coords(heap[image].size) :
            IF Luma(Source.px[p]) = locals.averageColour
            THEN heap[result].px[p] = White /\ Lighter.px[p] = White
            ELSE /\ heap[result].px[p] = Black => Lighter.px[p] = White
                 /\ heap[result].px[p] = White => Lighter.px[p] = Black
                 /\ heap[result].px[p] \in {Black, White}

\* a pixel at the average (white in both) beside a darker pixel (inverted)
C8_Witness ==
    /\ Returned("convertBlackAndWhite") /\ args.mode = "filter-darker"
    /\ \E p, q \in Coords(heap[image].size) :
         /\ Luma(Source.px[p]) = locals.averageColour
         /\ heap[result].px[p] = White /\ Lighter.px[p] = White
         /\ Luma(Source.px[q]) < locals.averageColour
         /\ heap[result].px[q] = Black /\ Lighter.px[q] = White

====
